---- MODULE Spec2Model ----
(***************************************************************************)
(* Policy evaluation core of the kritis admission gate:                    *)
(*   - severityWithinThreshold and ValidateImageSecurityPolicy             *)
(*     (package securitypolicy), as operators computed the way the code    *)
(*     computes them;                                                      *)
(*   - Reviewer.Review (package review), as a state machine over the       *)
(*     ISP / image loops, with the metadata backend as shared state;       *)
(*   - the metadata client (package containeranalysis), as the requests    *)
(*     each of its operations sends to the backend.                        *)
(***************************************************************************)
EXTENDS Integers, Sequences, FiniteSets, TLC

VARIABLES
    facIn,      \* operation, image and backend answer of a metadata client call
    facOut,     \* its error and the requests it sent, or Pending
    sevIn,      \* arguments of a severityWithinThreshold call
    sevOut,     \* its result, or Pending
    valIn,      \* arguments and environment of a ValidateImageSecurityPolicy call
    valOut,     \* its result, or Pending
    rin,        \* arguments and configuration of the Reviewer
    store,      \* backend: the attestation occurrences of each image
    notes,      \* backend: the names of the attestation notes
    round,      \* number of Review calls begun
    pc,         \* position of the running Review call
    loc,        \* its locals: filtered images, loop indices, resolved authorities
    log,        \* the calls it has made on its collaborators, in order
    result      \* what it returned

reviewVars == <<rin, store, notes, round, pc, loc, log, result>>

vars == <<facIn, facOut, sevIn, sevOut, valIn, valOut, rin, store, notes, round, pc, loc, log, result>>

\* ------------------------------------------------------------------------
\* Bounds of the model
\* ------------------------------------------------------------------------
MaxVulnz == 2
MaxOccs == 2
MaxProjectIDs == 2
MaxImages == 2
MaxReviews == 2
MaxRequired == 2
MaxAtts == 2

SeqsUpTo(S, n) == UNION {[1..k -> S] : k \in 0..n}

Pending == [pending |-> TRUE]
Idle == [idle |-> TRUE]
Nil == "nil"

\* ------------------------------------------------------------------------
\* Images: an image reference is its "/"-separated segments, each segment
\* being its "."-separated labels, plus whether it ends in a digest.
\* ------------------------------------------------------------------------
Image(segs, digest) == [segs |-> segs, digest |-> digest]

ImgApp == Image(<< <<"gcr", "io">>, <<"p1">>, <<"app">> >>, TRUE)
ImgTagged == Image(<< <<"gcr", "io">>, <<"p1">>, <<"app">> >>, FALSE)
ImgNginx == Image(<< <<"nginx">> >>, FALSE)
ImgEu == Image(<< <<"eu", "gcr", "io">>, <<"p2">>, <<"svc">> >>, TRUE)
ImgRoot == Image(<< <<"gcr", "io">>, <<"p1">> >>, TRUE)
ImgDocker == Image(<< <<"docker", "io">>, <<"p1">>, <<"app">> >>, TRUE)
ImgKritis == Image(<< <<"gcr", "io">>, <<"kritis-project">>, <<"kritis-server">> >>, TRUE)

\* resolve.FullyQualifiedImage: the reference carries a digest
FullyQualifiedImage(image) == image.digest

\* ------------------------------------------------------------------------
\* Severity lattice
\* ------------------------------------------------------------------------
BlockAll == "BLOCK_ALL"
AllowAll == "ALLOW_ALL"

\* vulnerability.Severity_value, the name -> number table of the Severity enum
Severity_value ==
    [s \in {"SEVERITY_UNSPECIFIED", "MINIMAL", "LOW", "MEDIUM", "HIGH", "CRITICAL"} |->
        CASE s = "SEVERITY_UNSPECIFIED" -> 0
          [] s = "MINIMAL" -> 1
          [] s = "LOW" -> 2
          [] s = "MEDIUM" -> 3
          [] s = "HIGH" -> 4
          [] s = "CRITICAL" -> 5]

\* a bug: the severity itself is never checked against the table
severityWithinThreshold_noSeverityCheck(maxSeverity, severity) ==
    IF maxSeverity = BlockAll THEN [ok |-> FALSE, err |-> Nil]
    ELSE IF maxSeverity = AllowAll THEN [ok |-> TRUE, err |-> Nil]
    ELSE IF maxSeverity \notin DOMAIN Severity_value
    THEN [ok |-> FALSE, err |-> "invalid max severity level"]
    ELSE [ok |-> severity \in DOMAIN Severity_value
                 /\ Severity_value[severity] <= Severity_value[maxSeverity],
          err |-> Nil]

severityWithinThreshold(maxSeverity, severity) ==
    IF maxSeverity = BlockAll THEN [ok |-> FALSE, err |-> Nil]
    ELSE IF maxSeverity = AllowAll THEN [ok |-> TRUE, err |-> Nil]
    ELSE IF maxSeverity \notin DOMAIN Severity_value
    THEN [ok |-> FALSE, err |-> "invalid max severity level"]
    ELSE IF severity \notin DOMAIN Severity_value
    THEN [ok |-> FALSE, err |-> "invalid severity level"]
    ELSE [ok |-> Severity_value[severity] <= Severity_value[maxSeverity], err |-> Nil]

\* ------------------------------------------------------------------------
\* Violations
\* ------------------------------------------------------------------------
NoVuln == [CVE |-> "", Severity |-> "", HasFixAvailable |-> FALSE]

Violation(vType, vulnerability, detail) ==
    [vType |-> vType, vulnerability |-> vulnerability, detail |-> detail]

UnqualifiedImageViolation == "UnqualifiedImageViolation"
FixUnavailableViolation == "FixUnavailableViolation"
SeverityViolation == "SeverityViolation"
ArkCISignatureViolation == "ArkCISignatureViolation"
BuildProjectIDViolation == "BuildProjectIDViolation"
RequiredAttestationViolation == "RequiredAttestationViolation"

\* ------------------------------------------------------------------------
\* ValidateImageSecurityPolicy
\* ------------------------------------------------------------------------
SeqHas(s, x) == \E i \in 1..Len(s) : s[i] = x

imageInWhitelist_never(isp, image) == FALSE

imageInWhitelist(isp, image) == SeqHas(isp.ImageWhitelist, image)

cveInWhitelist(isp, cve) == SeqHas(isp.WhitelistCVEs, cve)

GCRPrefixes == {<<"gcr", "io">>, <<"asia", "gcr", "io">>, <<"eu", "gcr", "io">>,
                <<"us", "gcr", "io">>}

\* strings.HasPrefix(image, p + "/" + projectID + "/") for a p of the list
imageInGCR(projectID, image) ==
    \E p \in GCRPrefixes :
        /\ Len(image.segs) >= 3
        /\ image.segs[1] = p
        /\ image.segs[2] = <<projectID>>

\* a bug: the unset threshold for unfixable vulnerabilities defaults to CRITICAL
maxNoFixSevOf_critical(isp) ==
    IF isp.MaximumFixUnavailableSeverity = "" THEN "CRITICAL"
    ELSE isp.MaximumFixUnavailableSeverity

maxSevOf(isp) ==
    IF isp.MaximumSeverity = "" THEN "CRITICAL" ELSE isp.MaximumSeverity

maxNoFixSevOf(isp) ==
    IF isp.MaximumFixUnavailableSeverity = "" THEN "ALLOW_ALL"
    ELSE isp.MaximumFixUnavailableSeverity

\* the loop over the fetched vulnerabilities; acc is `violations`
RECURSIVE vulnzLoop(_, _, _)
vulnzLoop(isp, vulnz, acc) ==
    IF vulnz = <<>> THEN [violations |-> acc, err |-> Nil]
    ELSE
        LET v == Head(vulnz)
            rest == Tail(vulnz)
        IN  IF cveInWhitelist(isp, v.CVE) THEN vulnzLoop(isp, rest, acc)
            ELSE IF ~v.HasFixAvailable THEN
                LET r == severityWithinThreshold(maxNoFixSevOf(isp), v.Severity)
                IN  IF r.err # Nil THEN [violations |-> acc, err |-> r.err]
                    ELSE IF r.ok THEN vulnzLoop(isp, rest, acc)
                    ELSE vulnzLoop(isp, rest,
                            Append(acc, Violation(FixUnavailableViolation, v, "")))
            ELSE
                LET r == severityWithinThreshold(maxSevOf(isp), v.Severity)
                IN  IF r.err # Nil THEN [violations |-> acc, err |-> r.err]
                    ELSE IF r.ok THEN vulnzLoop(isp, rest, acc)
                    ELSE vulnzLoop(isp, rest,
                            Append(acc, Violation(SeverityViolation, v, "")))

\* A compact JWT: its alg header, whether the KMS key verifies it and it is
\* otherwise valid, and its gcp_project claim (NoClaim when it has none).
NoClaim == "<no gcp_project claim>"

\* verifyArkSignature: only the first JWT of the occurrence is looked at
verifyArkSignature(env, occ) ==
    IF ~env.kmsOK THEN [token |-> Nil, err |-> "kms"]
    ELSE IF occ.Jwts = <<>> THEN [token |-> Nil, err |-> "no jwt found"]
    ELSE LET j == Head(occ.Jwts)
         IN  IF j.alg # "RS256" THEN [token |-> Nil, err |-> "unexpected signing method"]
             ELSE IF ~j.sigOK THEN [token |-> Nil, err |-> "token is not valid"]
             ELSE [token |-> j, err |-> Nil]

\* claims["gcp_project"].(string): the empty string when the claim is absent
gcpProjectOf(token) == IF token.project = NoClaim THEN "" ELSE token.project

\* the loop over the raw occurrences; st is [violations, signedProjectID]
RECURSIVE occsLoop(_, _, _)
occsLoop(env, occs, st) ==
    IF occs = <<>> THEN st
    ELSE
        LET occ == Head(occs)
            rest == Tail(occs)
        IN  IF occ.NoteName = env.arkNote THEN
                LET r == verifyArkSignature(env, occ)
                IN  IF r.err # Nil
                    THEN occsLoop(env, rest,
                            [st EXCEPT !.violations =
                                Append(@, Violation(ArkCISignatureViolation, NoVuln, r.err))])
                    ELSE occsLoop(env, rest,
                            [st EXCEPT !.signedProjectID = gcpProjectOf(r.token)])
            ELSE occsLoop(env, rest, st)

\* a bug: the check also runs for an empty builtProjectIDs
builtProjectCheck_noLenGuard(isp, image, signedProjectID) ==
    IF \E i \in 1..Len(isp.BuiltProjectIDs) :
            \/ isp.BuiltProjectIDs[i] = signedProjectID
            \/ imageInGCR(isp.BuiltProjectIDs[i], image)
    THEN <<>>
    ELSE <<Violation(BuildProjectIDViolation, NoVuln, "")>>

\* the builder check: the violations it appends
builtProjectCheck(isp, image, signedProjectID) ==
    IF Len(isp.BuiltProjectIDs) > 0
    THEN IF \E i \in 1..Len(isp.BuiltProjectIDs) :
                \/ isp.BuiltProjectIDs[i] = signedProjectID
                \/ imageInGCR(isp.BuiltProjectIDs[i], image)
         THEN <<>>
         ELSE <<Violation(BuildProjectIDViolation, NoVuln, "")>>
    ELSE <<>>

\* container.NewAtomicContainerSig: the payload is bound to the digest
AtomicSigOK(image) == image.digest

\* AtomicContainerSig.VerifyAttestationSignature: a signature verifies under a
\* key iff that key's owner made it over the payload of this image
PgpKeys == {"pubA", "pubB"}

VerifyAttestationSignature(image, key, signature) ==
    /\ key \in PgpKeys
    /\ signature.signer = key
    /\ signature.image = image

\* a bug: the first pair with a matching key id decides, verified or not
hasRequiredAttestation_firstPairOnly(image, attestor, attestations) ==
    IF ~AtomicSigOK(image) THEN [ok |-> FALSE, err |-> "payload"]
    ELSE LET pairs == {p \in (1..Len(attestations)) \X (1..Len(attestor.PublicKeys)) :
                            attestor.PublicKeys[p[2]].ID = attestations[p[1]].KeyID}
             first == CHOOSE p \in pairs : \A q \in pairs :
                            p[1] < q[1] \/ (p[1] = q[1] /\ p[2] <= q[2])
         IN  [ok |-> /\ pairs # {}
                     /\ VerifyAttestationSignature(image,
                            attestor.PublicKeys[first[2]].AsciiArmor,
                            attestations[first[1]].Signature),
              err |-> Nil]

hasRequiredAttestation(image, attestor, attestations) ==
    IF ~AtomicSigOK(image) THEN [ok |-> FALSE, err |-> "payload"]
    ELSE [ok |-> \E i \in 1..Len(attestations) : \E k \in 1..Len(attestor.PublicKeys) :
                    /\ attestor.PublicKeys[k].ID = attestations[i].KeyID
                    /\ VerifyAttestationSignature(image, attestor.PublicKeys[k].AsciiArmor,
                                                  attestations[i].Signature),
          err |-> Nil]

Call(op, arg) == [op |-> op, arg |-> arg]

\* the loop over requireAttestationsBy; st is [violations, err, calls]
RECURSIVE requiredLoop(_, _, _, _, _)
requiredLoop(image, be, attestations, required, st) ==
    IF required = <<>> THEN st
    ELSE
        LET name == Head(required)
            got == be.attestors[name]
            calls == Append(st.calls, Call("GetAttestor", name))
        IN  IF got.err # Nil
            THEN [violations |-> <<>>, err |-> "failed to get an attestor", calls |-> calls]
            ELSE IF ~got.found
            THEN [violations |-> <<>>, err |-> "attestor not found", calls |-> calls]
            ELSE LET r == hasRequiredAttestation(image, got.val, attestations)
                 IN  IF r.err # Nil
                     THEN [violations |-> <<>>,
                           err |-> "failed to check if required attestation exist",
                           calls |-> calls]
                     ELSE requiredLoop(image, be, attestations, Tail(required),
                            [violations |->
                                IF r.ok THEN st.violations
                                ELSE Append(st.violations,
                                        Violation(RequiredAttestationViolation, NoVuln, name)),
                             err |-> Nil,
                             calls |-> calls])

\* a bug: the Built-Project-ID violation is put in front of the list
validateAfterVulnz_builtFirst(isp, image, be, env, violations) ==
    LET calls2 == <<Call("Vulnerabilities", image), Call("OccurencesV1", image)>>
        occs == IF be.occs.err # Nil THEN <<>> ELSE be.occs.val
        os == occsLoop(env, occs, [violations |-> violations, signedProjectID |-> ""])
        vs == builtProjectCheck(isp, image, os.signedProjectID) \o os.violations
    IN  IF Len(isp.RequireAttestationsBy) > 0
        THEN LET calls3 == Append(calls2, Call("Attestations", image))
             IN  IF be.atts.err # Nil
                 THEN [violations |-> <<>>, err |-> be.atts.err, calls |-> calls3]
                 ELSE requiredLoop(image, be, be.atts.val, isp.RequireAttestationsBy,
                        [violations |-> vs, err |-> Nil, calls |-> calls3])
        ELSE [violations |-> vs, err |-> Nil, calls |-> calls2]

\* the tail of ValidateImageSecurityPolicy, from the occurrence fetch on
validateAfterVulnz(isp, image, be, env, violations) ==
    LET calls2 == <<Call("Vulnerabilities", image), Call("OccurencesV1", image)>>
        occs == IF be.occs.err # Nil THEN <<>> ELSE be.occs.val
        os == occsLoop(env, occs, [violations |-> violations, signedProjectID |-> ""])
        vs == os.violations \o builtProjectCheck(isp, image, os.signedProjectID)
    IN  IF Len(isp.RequireAttestationsBy) > 0
        THEN LET calls3 == Append(calls2, Call("Attestations", image))
             IN  IF be.atts.err # Nil
                 THEN [violations |-> <<>>, err |-> be.atts.err, calls |-> calls3]
                 ELSE requiredLoop(image, be, be.atts.val, isp.RequireAttestationsBy,
                        [violations |-> vs, err |-> Nil, calls |-> calls3])
        ELSE [violations |-> vs, err |-> Nil, calls |-> calls2]

\* a bug: the vulnerabilities are fetched before the reference is tested
ValidateImageSecurityPolicy_qualifyLate(isp, image, be, env) ==
    IF imageInWhitelist(isp, image)
    THEN [violations |-> <<>>, err |-> Nil, calls |-> <<>>]
    ELSE IF be.vulnz.err # Nil
    THEN [violations |-> <<>>, err |-> be.vulnz.err,
          calls |-> <<Call("Vulnerabilities", image)>>]
    ELSE IF ~FullyQualifiedImage(image)
    THEN [violations |-> <<Violation(UnqualifiedImageViolation, NoVuln, "")>>,
          err |-> Nil, calls |-> <<Call("Vulnerabilities", image)>>]
    ELSE LET vl == vulnzLoop(isp, be.vulnz.val, <<>>)
         IN  IF vl.err # Nil
             THEN [violations |-> vl.violations, err |-> vl.err,
                   calls |-> <<Call("Vulnerabilities", image)>>]
             ELSE validateAfterVulnz(isp, image, be, env, vl.violations)

ValidateImageSecurityPolicy(isp, image, be, env) ==
    IF imageInWhitelist(isp, image)
    THEN [violations |-> <<>>, err |-> Nil, calls |-> <<>>]
    ELSE IF ~FullyQualifiedImage(image)
    THEN [violations |-> <<Violation(UnqualifiedImageViolation, NoVuln, "")>>,
          err |-> Nil, calls |-> <<>>]
    ELSE IF be.vulnz.err # Nil
    THEN [violations |-> <<>>, err |-> be.vulnz.err,
          calls |-> <<Call("Vulnerabilities", image)>>]
    ELSE LET vl == vulnzLoop(isp, be.vulnz.val, <<>>)
         IN  IF vl.err # Nil
             THEN [violations |-> vl.violations, err |-> vl.err,
                   calls |-> <<Call("Vulnerabilities", image)>>]
             ELSE validateAfterVulnz(isp, image, be, env, vl.violations)

\* ------------------------------------------------------------------------
\* Inputs of the two functions
\* ------------------------------------------------------------------------
SeverityStrings ==
    {BlockAll, AllowAll, "SEVERITY_UNSPECIFIED", "MINIMAL", "LOW", "MEDIUM", "HIGH",
     "CRITICAL", "", "BOGUS"}

Ok(val) == [err |-> Nil, val |-> val]
Failed == [err |-> "transport", val |-> <<>>]

Vulnerabilities ==
    [CVE : {"CVE-1", "CVE-2"}, Severity : {"LOW", "HIGH", "BOGUS"}, HasFixAvailable : BOOLEAN]

CriticalVuln == [CVE |-> "CVE-9", Severity |-> "CRITICAL", HasFixAvailable |-> FALSE]

Jwt(alg, sigOK, project) == [alg |-> alg, sigOK |-> sigOK, project |-> project]
Occ(noteName, jwts) == [NoteName |-> noteName, Jwts |-> jwts]

ArkNote == "projects/ark/notes/signed"

Occurrences ==
    {Occ(ArkNote, <<Jwt("RS256", TRUE, "p1")>>),
     Occ(ArkNote, <<Jwt("RS256", TRUE, "p9")>>),
     Occ(ArkNote, <<Jwt("RS256", TRUE, NoClaim)>>),
     Occ(ArkNote, <<Jwt("RS256", FALSE, "p9")>>),
     Occ(ArkNote, <<>>),
     Occ("", <<Jwt("HS256", TRUE, "p9")>>)}

Envs ==
    {[arkNote |-> ArkNote, kmsOK |-> TRUE],
     [arkNote |-> ArkNote, kmsOK |-> FALSE],
     [arkNote |-> "", kmsOK |-> TRUE]}

Sig(signer, image) == [signer |-> signer, image |-> image]
Att(keyID, signature, noteName) ==
    [KeyID |-> keyID, Signature |-> signature, NoteName |-> noteName]

PubKey(id, armor) == [ID |-> id, AsciiArmor |-> armor]
NoAttestor == [Name |-> "", PublicKeys |-> <<>>]

\* what the attestor fetcher answers for each name
Attestors ==
    [n \in {"att1", "att2", "ghost", "down"} |->
        CASE n = "att1" ->
                [err |-> Nil, found |-> TRUE,
                 val |-> [Name |-> n, PublicKeys |-> <<PubKey("fpA", "pubA")>>]]
          [] n = "att2" ->
                [err |-> Nil, found |-> TRUE,
                 val |-> [Name |-> n,
                          PublicKeys |-> <<PubKey("fpA", "pubB"), PubKey("fpB", "pubB")>>]]
          [] n = "ghost" -> [err |-> Nil, found |-> FALSE, val |-> NoAttestor]
          [] n = "down" -> [err |-> "transport", found |-> FALSE, val |-> NoAttestor]]

DefaultISP ==
    [Name |-> "isp", Namespace |-> "ns",
     ImageWhitelist |-> <<>>,
     MaximumSeverity |-> "", MaximumFixUnavailableSeverity |-> "", WhitelistCVEs |-> <<>>,
     BuiltProjectIDs |-> <<>>, RequireAttestationsBy |-> <<>>,
     AttestationAuthorityNames |-> <<>>]

EmptyBackend == [vulnz |-> Ok(<<>>), occs |-> Ok(<<>>), atts |-> Ok(<<>>), attestors |-> Attestors]

ValInput(isp, image, be, env) == [isp |-> isp, image |-> image, be |-> be, env |-> env]

\* whitelist and qualification gates, against a backend full of trouble
GateInputs ==
    {ValInput([DefaultISP EXCEPT !.ImageWhitelist = wl, !.MaximumSeverity = ms,
                                 !.BuiltProjectIDs = bp, !.RequireAttestationsBy = ra],
              image,
              [EmptyBackend EXCEPT !.vulnz = vz,
                                   !.occs = Ok(<<Occ(ArkNote, <<>>)>>)],
              [arkNote |-> ArkNote, kmsOK |-> TRUE]) :
        wl \in {<<>>, <<ImgApp>>, <<ImgNginx>>, <<ImgTagged, ImgEu>>},
        ms \in {"", "BOGUS"},
        bp \in {<<>>, <<"p9">>},
        ra \in {<<>>, <<"down">>},
        image \in {ImgApp, ImgTagged, ImgNginx, ImgEu},
        vz \in {Ok(<<>>), Ok(<<CriticalVuln>>), Failed}}

\* the vulnerability step
VulnInputs ==
    {ValInput([DefaultISP EXCEPT !.MaximumSeverity = ms,
                                 !.MaximumFixUnavailableSeverity = mf,
                                 !.WhitelistCVEs = wc],
              ImgApp,
              [EmptyBackend EXCEPT !.vulnz = Ok(vz)],
              [arkNote |-> "", kmsOK |-> TRUE]) :
        ms \in {"", "LOW", BlockAll, "BOGUS"},
        mf \in {"", "LOW", BlockAll, "BOGUS"},
        wc \in {<<>>, <<"CVE-1">>},
        vz \in SeqsUpTo(Vulnerabilities, MaxVulnz)}

\* the signed-project and builder steps
BuildInputs ==
    {ValInput([DefaultISP EXCEPT !.BuiltProjectIDs = bp],
              image,
              [EmptyBackend EXCEPT !.occs = oc],
              env) :
        bp \in SeqsUpTo({"p1", "p9", ""}, MaxProjectIDs),
        image \in {ImgApp, ImgEu, ImgRoot, ImgDocker},
        oc \in {Failed} \cup {Ok(o) : o \in SeqsUpTo(Occurrences, MaxOccs)},
        env \in Envs}

\* the attestations the backend may hold for an image
PGPAttestations ==
    {Att("fpA", Sig("pubA", ImgApp), <<>>),
     Att("fpA", Sig("pubB", ImgApp), <<>>),
     Att("fpB", Sig("pubB", ImgApp), <<>>),
     Att("fpA", Sig("pubA", ImgEu), <<>>),
     Att("fpC", Sig("pubA", ImgApp), <<>>)}

\* the required-attestation step
AttInputs ==
    {ValInput([DefaultISP EXCEPT !.RequireAttestationsBy = ra],
              image,
              [EmptyBackend EXCEPT !.atts = at],
              [arkNote |-> ArkNote, kmsOK |-> TRUE]) :
        ra \in SeqsUpTo({"att1", "att2", "ghost", "down"}, MaxRequired) \ {<<>>},
        image \in {ImgApp, ImgEu},
        at \in {Failed} \cup {Ok(a) : a \in SeqsUpTo(PGPAttestations, MaxAtts)}}

\* all four steps together
OrderInputs ==
    {ValInput([DefaultISP EXCEPT !.MaximumSeverity = "LOW",
                                 !.MaximumFixUnavailableSeverity = "LOW",
                                 !.BuiltProjectIDs = bp,
                                 !.RequireAttestationsBy = ra],
              ImgApp,
              [EmptyBackend EXCEPT !.vulnz = Ok(vz), !.occs = Ok(oc), !.atts = Ok(at)],
              [arkNote |-> ArkNote, kmsOK |-> TRUE]) :
        bp \in {<<>>, <<"p9">>},
        ra \in SeqsUpTo({"att1", "att2"}, MaxRequired),
        vz \in SeqsUpTo({[CVE |-> "CVE-1", Severity |-> "HIGH", HasFixAvailable |-> TRUE],
                         [CVE |-> "CVE-2", Severity |-> "HIGH", HasFixAvailable |-> FALSE]},
                        MaxVulnz),
        oc \in SeqsUpTo({Occ(ArkNote, <<>>), Occ(ArkNote, <<Jwt("RS256", FALSE, "p9")>>)},
                        MaxOccs),
        at \in {<<>>, <<Att("fpA", Sig("pubA", ImgApp), <<>>)>>}}

\* ------------------------------------------------------------------------
\* The functions as state machines: one call each
\* ------------------------------------------------------------------------
NoResult == [value |-> "none", why |-> ""]

\* the metadata client is not called on its own
FacadeUnused == facIn = Idle /\ facOut = Idle

\* the Reviewer is not part of a run of one of the two functions
ReviewUnused ==
    /\ rin = Idle
    /\ store = <<>>
    /\ notes = {}
    /\ round = 0
    /\ pc = "unused"
    /\ loc = Idle
    /\ log = <<>>
    /\ result = NoResult

SeverityInit ==
    /\ sevIn \in [max : SeverityStrings, actual : SeverityStrings]
    /\ sevOut = Pending
    /\ valIn = Idle
    /\ valOut = Idle
    /\ FacadeUnused
    /\ ReviewUnused

SeverityCall ==
    /\ sevOut = Pending
    /\ sevOut' = severityWithinThreshold(sevIn.max, sevIn.actual)
    /\ UNCHANGED <<facIn, facOut, sevIn, valIn, valOut, reviewVars>>

SpecSeverity == SeverityInit /\ [][SeverityCall]_vars

ValidateInit ==
    /\ \/ valIn \in GateInputs
       \/ valIn \in VulnInputs
       \/ valIn \in BuildInputs
       \/ valIn \in AttInputs
       \/ valIn \in OrderInputs
    /\ valOut = Pending
    /\ sevIn = Idle
    /\ sevOut = Idle
    /\ FacadeUnused
    /\ ReviewUnused

ValidateCall ==
    /\ valOut = Pending
    /\ valOut' = ValidateImageSecurityPolicy(valIn.isp, valIn.image, valIn.be, valIn.env)
    /\ UNCHANGED <<facIn, facOut, sevIn, sevOut, valIn, reviewVars>>

SpecValidate == ValidateInit /\ [][ValidateCall]_vars

\* ------------------------------------------------------------------------
\* Reviewer: collaborators
\* ------------------------------------------------------------------------
Authority(name, noteReference, publicKeyData, privateKeySecretName) ==
    [Name |-> name, NoteReference |-> noteReference, PublicKeyData |-> publicKeyData,
     PrivateKeySecretName |-> privateKeySecretName]

NoAuthority == Authority("", <<>>, "", "")

\* the AttestationAuthority resources of the cluster
AuthorityDB ==
    [n \in {"A", "B", "X", "D", "N"} |->
        CASE n = "A" -> Authority(n, <<"v1beta1", "projects", "np">>, "base64(pubA)", "secA")
          [] n = "B" -> Authority(n, <<"v1beta1", "projects", "np">>, "base64(pubB)", "secB")
          [] n = "X" -> Authority(n, <<"v1beta1", "projects", "np">>, "garbage", "secA")
          [] n = "D" -> Authority(n, <<"np">>, "base64(pubB)", "secD")
          [] n = "N" -> Authority(n, <<"np">>, "base64(pubA)", "secA")]

\* config.Auths
Auths(namespace, name) ==
    IF name \in DOMAIN AuthorityDB THEN [err |-> Nil, val |-> AuthorityDB[name]]
    ELSE [err |-> "not found", val |-> NoAuthority]

NilSecret == [isNil |-> TRUE, SecretName |-> "", key |-> ""]

\* the signing secrets of the namespace: each holds a key pair, named here by
\* its public key
SecretDB ==
    [n \in {"secA", "secB"} |->
        [isNil |-> FALSE, SecretName |-> n, key |-> IF n = "secA" THEN "pubA" ELSE "pubB"]]

\* config.Secret
Secret(namespace, name) ==
    IF name \in DOMAIN SecretDB THEN [err |-> Nil, val |-> SecretDB[name]]
    ELSE [err |-> "secret not found", val |-> NilSecret]

\* base64.StdEncoding.DecodeString followed by secrets.NewPgpKey
Base64Keys ==
    [d \in {"base64(pubA)", "base64(pubB)"} |-> IF d = "base64(pubA)" THEN "pubA" ELSE "pubB"]

KeyFingerprint == [k \in PgpKeys |-> IF k = "pubA" THEN "fpA" ELSE "fpB"]

fingerprint(publicKeyData) ==
    IF publicKeyData \notin DOMAIN Base64Keys
    THEN [key |-> "", fingerprint |-> "", err |-> "parse"]
    ELSE [key |-> Base64Keys[publicKeyData],
          fingerprint |-> KeyFingerprint[Base64Keys[publicKeyData]],
          err |-> Nil]

\* util.RemoveGloballyWhitelistedImages: images of the global whitelist are
\* dropped, whatever their tag or digest
GlobalImageWhitelist == {<< <<"gcr", "io">>, <<"kritis-project">>, <<"kritis-server">> >>}

NotGloballyWhitelisted(image) == image.segs \notin GlobalImageWhitelist

RemoveGloballyWhitelistedImages(images) == SelectSeq(images, NotGloballyWhitelisted)

\* config.ClusterWhitelistedImagesRemover: fails, or drops the images the
\* cluster whitelists
ClusterWhitelistedImagesRemover(remover, images) ==
    IF remover.err # Nil THEN [err |-> remover.err, val |-> <<>>]
    ELSE [err |-> Nil,
          val |-> LET Kept(image) == image \notin remover.remove
                  IN  SelectSeq(images, Kept)]

isRegistryGCR(r) ==
    /\ Len(r) >= 2
    /\ r[Len(r) - 1] = "gcr"
    /\ r[Len(r)] = "io"

\* name.ParseReference: the first segment is the registry when another
\* follows it and it has a dot; the default registry is index.docker.io
isValidImageOnGCR(containerImage) ==
    LET segs == containerImage.segs
        registry == IF Len(segs) >= 2 /\ Len(segs[1]) >= 2 THEN segs[1]
                    ELSE <<"index", "docker", "io">>
    IN  isRegistryGCR(registry)

\* Client.Attestations
Attestations(st, containerImage) ==
    IF ~isValidImageOnGCR(containerImage) THEN [err |-> "not GCR", val |-> <<>>]
    ELSE [err |-> Nil, val |-> st[containerImage]]

\* ------------------------------------------------------------------------
\* Reviewer
\* ------------------------------------------------------------------------
NoImage == Image(<<>>, FALSE)

Ev(op, i, j, image, a) == [op |-> op, isp |-> i, img |-> j, image |-> image, a |-> a]

\* the statements of Review before its loops
reviewEntry_noEmptyCheck(images, isps, remover) ==
    IF Len(isps) = 0 THEN [ret |-> "nil", images |-> <<>>]
    ELSE LET r == ClusterWhitelistedImagesRemover(remover,
                        RemoveGloballyWhitelistedImages(images))
         IN  IF r.err # Nil THEN [ret |-> "err", images |-> <<>>]
             ELSE [ret |-> "loop", images |-> r.val]

reviewEntry(images, isps, remover) ==
    IF Len(isps) = 0 THEN [ret |-> "nil", images |-> <<>>]
    ELSE LET g == RemoveGloballyWhitelistedImages(images)
         IN  IF Len(g) = 0 THEN [ret |-> "nil", images |-> <<>>]
             ELSE LET r == ClusterWhitelistedImagesRemover(remover, g)
                  IN  IF r.err # Nil THEN [ret |-> "err", images |-> <<>>]
                      ELSE IF Len(r.val) = 0 THEN [ret |-> "nil", images |-> <<>>]
                      ELSE [ret |-> "loop", images |-> r.val]

\* asked: the names config.Auths was called with
getAttestationAuthoritiesForISP(isp) ==
    LET names == isp.AttestationAuthorityNames
        bad == {k \in 1..Len(names) : Auths(isp.Namespace, names[k]).err # Nil}
    IN  IF bad = {}
        THEN [auths |-> [k \in 1..Len(names) |-> Auths(isp.Namespace, names[k]).val],
              err |-> Nil, asked |-> names]
        ELSE [auths |-> <<>>, err |-> "faild to get attestation authorities",
              asked |-> SubSeq(names, 1, CHOOSE k \in bad : \A m \in bad : k <= m)]

\* a bug: every authority key is tried, whatever the attestation's key id
hasValidImageAttestations_anyKey(image, attestations, auths) ==
    /\ AtomicSigOK(image)
    /\ \E i \in 1..Len(attestations) : \E k \in 1..Len(auths) :
            /\ fingerprint(auths[k].PublicKeyData).err = Nil
            /\ VerifyAttestationSignature(image, fingerprint(auths[k].PublicKeyData).key,
                                          attestations[i].Signature)

hasValidImageAttestations(image, attestations, auths) ==
    IF ~AtomicSigOK(image) THEN FALSE
    ELSE LET parsed == {k \in 1..Len(auths) : fingerprint(auths[k].PublicKeyData).err = Nil}
             \* keys[id]: the key of the last authority with that fingerprint, else ""
             keys(id) ==
                LET same == {k \in parsed : fingerprint(auths[k].PublicKeyData).fingerprint = id}
                IN  IF same = {} THEN ""
                    ELSE fingerprint(auths[CHOOSE k \in same : \A m \in same : m <= k]
                                        .PublicKeyData).key
         IN  \E i \in 1..Len(attestations) :
                VerifyAttestationSignature(image, keys(attestations[i].KeyID),
                                           attestations[i].Signature)

\* keys[a.Name] of addAttestations: "" for an authority whose key does not parse
authorityKeyID(a) ==
    IF fingerprint(a.PublicKeyData).err # Nil THEN ""
    ELSE fingerprint(a.PublicKeyData).fingerprint

\* a bug: every authority counts as unattested
getUnAttested_all(auths, atts) == auths

getUnAttested(auths, atts) ==
    LET Missing(a) == \A i \in 1..Len(atts) : atts[i].KeyID # authorityKeyID(a)
    IN  SelectSeq(auths, Missing)

NilNote == [isNil |-> TRUE, Name |-> <<>>]

\* getProjectFromNoteReference and the note name built from it
noteNameOf(aa) ==
    IF Len(aa.NoteReference) < 3 THEN [err |-> "invalid note reference", name |-> <<>>]
    ELSE [err |-> Nil, name |-> <<"projects", aa.NoteReference[3], "notes", aa.Name>>]

\* util.GetOrCreateAttestationNote over Client.AttestationNote and
\* Client.CreateAttestationNote; nt is the set of note names of the backend
GetOrCreateAttestationNote(nt, aa) ==
    LET n == noteNameOf(aa)
    IN  IF n.err # Nil THEN [err |-> n.err, note |-> NilNote, notes |-> nt]
        ELSE [err |-> Nil, note |-> [isNil |-> FALSE, Name |-> n.name],
              notes |-> nt \cup {n.name}]

\* a bug: the occurrence is stored without the signature of the secret's key
CreateAttestationOccurence_unsigned(st, note, containerImage, pgpSigningKey) ==
    IF ~isValidImageOnGCR(containerImage)
    THEN [err |-> "not GCR", panic |-> FALSE, store |-> st]
    ELSE IF pgpSigningKey.isNil
    THEN [err |-> Nil, panic |-> TRUE, store |-> st]
    ELSE IF ~AtomicSigOK(containerImage)
    THEN [err |-> "payload", panic |-> FALSE, store |-> st]
    ELSE IF note.isNil
    THEN [err |-> "invalid note name", panic |-> FALSE, store |-> st]
    ELSE [err |-> Nil, panic |-> FALSE,
          store |-> [st EXCEPT ![containerImage] =
                        Append(@, Att(KeyFingerprint[pgpSigningKey.key],
                                      Sig("none", containerImage),
                                      note.Name))]]

\* Client.CreateAttestationOccurence; st is the backend's store
CreateAttestationOccurence(st, note, containerImage, pgpSigningKey) ==
    IF ~isValidImageOnGCR(containerImage)
    THEN [err |-> "not GCR", panic |-> FALSE, store |-> st]
    ELSE IF pgpSigningKey.isNil
    THEN [err |-> Nil, panic |-> TRUE, store |-> st]
    ELSE IF ~AtomicSigOK(containerImage)
    THEN [err |-> "payload", panic |-> FALSE, store |-> st]
    ELSE IF note.isNil
    THEN [err |-> "invalid note name", panic |-> FALSE, store |-> st]
    ELSE [err |-> Nil, panic |-> FALSE,
          store |-> [st EXCEPT ![containerImage] =
                        Append(@, Att(KeyFingerprint[pgpSigningKey.key],
                                      Sig(pgpSigningKey.key, containerImage),
                                      note.Name))]]

\* the loop of addAttestations over the unattested authorities;
\* s is [events, store, notes, errs, panic]
RECURSIVE issueLoop(_, _, _, _, _, _)
issueLoop(i, j, image, isp, u, s) ==
    IF u = <<>> \/ s.panic THEN s
    ELSE
        LET a == Head(u)
            n == GetOrCreateAttestationNote(s.notes, a)
            sec == Secret(isp.Namespace, a.PrivateKeySecretName)
            c == CreateAttestationOccurence(s.store, n.note, image, sec.val)
            count(e) == IF e # Nil THEN 1 ELSE 0
        IN  issueLoop(i, j, image, isp, Tail(u),
                [events |-> s.events \o
                    <<Ev("GetOrCreateAttestationNote", i, j, image,
                         [authority |-> a.Name, err |-> n.err]),
                      Ev("Secret", i, j, image,
                         [namespace |-> isp.Namespace, name |-> a.PrivateKeySecretName,
                          err |-> sec.err]),
                      Ev("CreateAttestationOccurence", i, j, image,
                         [authority |-> a.Name, note |-> n.note, secret |-> sec.val,
                          err |-> c.err, panic |-> c.panic])>>,
                 store |-> c.store,
                 notes |-> n.notes,
                 errs |-> s.errs + count(n.err) + count(sec.err) + count(c.err),
                 panic |-> c.panic])

AuthsEvents(i, asked) == [k \in 1..Len(asked) |-> Ev("Auths", i, 0, NoImage, asked[k])]

addAttestations(i, j, image, atts, isp, st, nt) ==
    LET got == getAttestationAuthoritiesForISP(isp)
        s0 == [events |-> AuthsEvents(i, got.asked), store |-> st, notes |-> nt,
               errs |-> 0, panic |-> FALSE]
    IN  IF got.err # Nil THEN [s0 EXCEPT !.errs = 1]
        ELSE IF Len(got.auths) = 0 THEN [s0 EXCEPT !.errs = 1]
        ELSE issueLoop(i, j, image, isp, getUnAttested(got.auths, atts), s0)

\* a bug: nil is returned once the strategy has handled the violations
handleViolations_nilWhenHandled(i, j, image, violations, strategyErr) ==
    [events |-> <<Ev("HandleViolation", i, j, image,
                     [violations |-> violations, err |-> strategyErr])>>,
     ret |-> IF strategyErr # Nil THEN "err" ELSE "nil"]

\* strategyErr is what Strategy.HandleViolation answers
handleViolations(i, j, image, violations, strategyErr) ==
    [events |-> <<Ev("HandleViolation", i, j, image,
                     [violations |-> violations, err |-> strategyErr])>>,
     ret |-> "err"]

\* a bug: the violations are looked at before the error
validateBranch_violationsFirst(out) ==
    IF Len(out.violations) # 0 THEN "violations"
    ELSE IF out.err # Nil THEN "error"
    ELSE "clean"

\* what Review does with the answer of config.Validate
validateBranch(out) ==
    IF out.err # Nil THEN "error"
    ELSE IF Len(out.violations) # 0 THEN "violations"
    ELSE "clean"

\* fetchAndVerifyAttestations
fetchAndVerifyAttestations(i, j, image, auths, st) ==
    LET got == Attestations(st, image)
    IN  IF got.err # Nil
        THEN [isAttested |-> FALSE, attestations |-> <<>>,
              events |-> <<Ev("Attestations", i, j, image, got)>>]
        ELSE LET isAttested == hasValidImageAttestations(image, got.val, auths)
             IN  [isAttested |-> isAttested, attestations |-> got.val,
                  events |-> <<Ev("Attestations", i, j, image, got),
                               Ev("HandleAttestation", i, j, image, isAttested)>>]

\* one pass of the body of the loop over the images; out is what
\* config.Validate answers if it is called
reviewImage(i, j, isp, image, auths, isWebhook, st, nt, out, strategyErr) ==
    LET f == fetchAndVerifyAttestations(i, j, image, auths, st)
        same == [ret |-> "continue", why |-> "", events |-> f.events, store |-> st,
                 notes |-> nt]
    IN  IF f.isAttested /\ isWebhook THEN same
        ELSE LET ev == Append(f.events, Ev("Validate", i, j, image, out))
             IN  CASE validateBranch(out) = "error" ->
                        [same EXCEPT !.ret = "err", !.why = "validate", !.events = ev]
                   [] validateBranch(out) = "violations" ->
                        LET h == handleViolations(i, j, image, out.violations, strategyErr)
                        IN  [same EXCEPT !.ret = h.ret, !.why = "violations",
                                         !.events = ev \o h.events]
                   [] OTHER ->
                        IF isWebhook
                        THEN LET a == addAttestations(i, j, image, f.attestations, isp, st, nt)
                             IN  [ret |-> IF a.panic THEN "panic" ELSE "continue",
                                  why |-> IF a.panic THEN "addAttestations" ELSE "",
                                  events |-> ev \o a.events,
                                  store |-> a.store, notes |-> a.notes]
                        ELSE [same EXCEPT !.events = ev]

\* ------------------------------------------------------------------------
\* Reviewer: inputs and state machine
\* ------------------------------------------------------------------------
ReviewISP(name, authorityNames) ==
    [DefaultISP EXCEPT !.Name = name, !.AttestationAuthorityNames = authorityNames]

IspNone == ReviewISP("none", <<>>)
IspA == ReviewISP("a", <<"A">>)
IspAB == ReviewISP("ab", <<"A", "B">>)
IspXB == ReviewISP("xb", <<"X", "B">>)
IspD == ReviewISP("d", <<"D">>)
IspGone == ReviewISP("gone", <<"A", "gone", "B">>)
IspX == ReviewISP("x", <<"X">>)
IspNB == ReviewISP("nb", <<"N", "B">>)

IspLists ==
    {<<IspA>>, <<IspAB>>, <<IspNone, IspA>>, <<IspXB>>, <<IspA, IspGone>>, <<IspD, IspA>>,
     <<IspA, IspA>>, <<IspX>>, <<IspNB>>}

StoreImages == {ImgApp, ImgEu, ImgKritis, ImgNginx, ImgDocker}

NoteA == <<"projects", "np", "notes", "A">>
NoteB == <<"projects", "np", "notes", "B">>

EmptyStore == [image \in StoreImages |-> <<>>]

\* what the backend holds before the first Review
Stores ==
    {EmptyStore,
     [EmptyStore EXCEPT ![ImgApp] = <<Att("fpA", Sig("pubA", ImgApp), NoteA)>>],
     [EmptyStore EXCEPT ![ImgApp] = <<Att("fpA", Sig("pubB", ImgApp), NoteA)>>],
     [EmptyStore EXCEPT ![ImgApp] = <<Att("fpZ", Sig("pubA", ImgApp), NoteA)>>],
     [EmptyStore EXCEPT ![ImgApp] = <<Att("fpB", Sig("none", ImgApp), NoteB),
                                      Att("fpB", Sig("pubB", ImgApp), NoteB)>>,
                        ![ImgEu] = <<Att("fpA", Sig("pubA", ImgApp), NoteA)>>]}

NoRemover == [err |-> Nil, remove |-> {}]

Removers ==
    {NoRemover, [err |-> Nil, remove |-> {ImgEu}], [err |-> Nil, remove |-> {ImgApp, ImgEu}],
     [err |-> "remover", remove |-> {}]}

RevInput(images, isps, isWebhook, remover) ==
    [images |-> images, isps |-> isps, isWebhook |-> isWebhook, remover |-> remover]

\* what config.Validate may answer
Violations1 == <<Violation(SeverityViolation, CriticalVuln, "")>>
Violations2 == <<Violation(FixUnavailableViolation, CriticalVuln, ""),
                 Violation(BuildProjectIDViolation, NoVuln, "")>>

ValidateOutcomes ==
    {[violations |-> <<>>, err |-> Nil],
     [violations |-> Violations1, err |-> Nil],
     [violations |-> Violations2, err |-> Nil],
     [violations |-> <<>>, err |-> "transport"],
     [violations |-> Violations1, err |-> "invalid severity level"]}

\* the filters in front of the loops
FilterInputs ==
    {<<RevInput(images, isps, isWebhook, remover), EmptyStore>> :
        images \in SeqsUpTo({ImgApp, ImgEu, ImgKritis}, MaxImages),
        isps \in {<<>>, <<IspA>>, <<IspGone>>},
        isWebhook \in BOOLEAN,
        remover \in Removers}

\* the loops
LoopInputs ==
    {<<RevInput(images, isps, isWebhook, NoRemover), st>> :
        images \in SeqsUpTo({ImgApp, ImgEu, ImgNginx}, MaxImages) \ {<<>>},
        isps \in IspLists,
        isWebhook \in BOOLEAN,
        st \in Stores}

ReviewInputs == FilterInputs \cup LoopInputs

Init ==
    /\ sevIn = Idle
    /\ sevOut = Idle
    /\ valIn = Idle
    /\ valOut = Idle
    /\ FacadeUnused
    /\ \E in \in ReviewInputs :
        /\ rin = in[1]
        /\ store = in[2]
    /\ notes = {}
    /\ round = 0
    /\ pc = "idle"
    /\ loc = [images |-> <<>>, ispIdx |-> 0, imgIdx |-> 0, auths |-> <<>>]
    /\ log = <<>>
    /\ result = NoResult

Return(value, why) ==
    /\ pc' = "done"
    /\ result' = [value |-> value, why |-> why]

\* Review is called, the first time or again with the same arguments
ReviewBegin ==
    /\ pc \in {"idle", "done"}
    /\ round < MaxReviews
    /\ round' = round + 1
    /\ log' = <<>>
    /\ LET e == reviewEntry(rin.images, rin.isps, rin.remover)
       IN  IF e.ret = "loop"
           THEN /\ pc' = "isp"
                /\ result' = NoResult
                /\ loc' = [images |-> e.images, ispIdx |-> 1, imgIdx |-> 0, auths |-> <<>>]
           ELSE /\ Return(e.ret, "entry")
                /\ loc' = [images |-> e.images, ispIdx |-> 0, imgIdx |-> 0, auths |-> <<>>]
    /\ UNCHANGED <<facIn, facOut, sevIn, sevOut, valIn, valOut, rin, store, notes>>

\* the head of the loop over the ISPs: the authorities of the next ISP
ReviewNextISP ==
    /\ pc = "isp"
    /\ IF loc.ispIdx > Len(rin.isps)
       THEN /\ Return("nil", "end")
            /\ UNCHANGED <<loc, log>>
       ELSE LET got == getAttestationAuthoritiesForISP(rin.isps[loc.ispIdx])
            IN  /\ log' = log \o AuthsEvents(loc.ispIdx, got.asked)
                /\ IF got.err # Nil
                   THEN /\ Return("err", "auths")
                        /\ UNCHANGED loc
                   ELSE /\ pc' = "image"
                        /\ loc' = [loc EXCEPT !.imgIdx = 1, !.auths = got.auths]
                        /\ UNCHANGED result
    /\ UNCHANGED <<facIn, facOut, sevIn, sevOut, valIn, valOut, rin, store, notes, round>>

\* the loop over the images: its next pass, or its end
ReviewNextImage ==
    /\ pc = "image"
    /\ IF loc.imgIdx > Len(loc.images)
       THEN /\ pc' = "isp"
            /\ loc' = [loc EXCEPT !.ispIdx = @ + 1, !.imgIdx = 0]
            /\ UNCHANGED <<log, store, notes, result>>
       ELSE \E out \in ValidateOutcomes, strategyErr \in {Nil, "strategy"} :
                LET r == reviewImage(loc.ispIdx, loc.imgIdx, rin.isps[loc.ispIdx],
                                     loc.images[loc.imgIdx], loc.auths, rin.isWebhook,
                                     store, notes, out, strategyErr)
                IN  /\ log' = log \o r.events
                    /\ store' = r.store
                    /\ notes' = r.notes
                    /\ IF r.ret = "continue"
                       THEN /\ loc' = [loc EXCEPT !.imgIdx = @ + 1]
                            /\ UNCHANGED <<pc, result>>
                       ELSE /\ Return(r.ret, r.why)
                            /\ UNCHANGED loc
    /\ UNCHANGED <<facIn, facOut, sevIn, sevOut, valIn, valOut, rin, round>>

Next == ReviewBegin \/ ReviewNextISP \/ ReviewNextImage

Spec == Init /\ [][Next]_vars

\* ------------------------------------------------------------------------
\* The metadata client: what each operation sends to the backend
\* ------------------------------------------------------------------------
\* the second "/"-separated part of the reference, nothing if there is none
getProjectFromContainerImage(image) ==
    IF Len(image.segs) < 2 THEN <<>> ELSE image.segs[2]

Request(api, kind, parent) == [api |-> api, kind |-> kind, parent |-> parent]

\* Client.fetchOccurrence; answer is what the backend answers to the request
fetchOccurrence(containerImage, kind, answer) ==
    IF ~isValidImageOnGCR(containerImage)
    THEN [err |-> "not GCR", requests |-> <<>>]
    ELSE [err |-> answer,
          requests |-> <<Request("ListOccurrences", kind,
                                 getProjectFromContainerImage(containerImage))>>]

\* Client.OccurencesV1
OccurencesV1(containerImage, answer) ==
    [err |-> answer,
     requests |-> <<Request("v1.Occurrences.List", "",
                            getProjectFromContainerImage(containerImage))>>]

\* Client.CreateAttestationOccurence for a note and a loaded signing secret
createOccurrence(containerImage, answer) ==
    IF ~isValidImageOnGCR(containerImage)
    THEN [err |-> "not GCR", requests |-> <<>>]
    ELSE IF ~AtomicSigOK(containerImage)
    THEN [err |-> "payload", requests |-> <<>>]
    ELSE [err |-> answer,
          requests |-> <<Request("CreateOccurrence", "ATTESTATION_AUTHORITY",
                                 getProjectFromContainerImage(containerImage))>>]

FacadeOps ==
    {"Vulnerabilities", "Attestations", "OccurencesV1", "Builds", "CreateAttestationOccurence"}

\* the operations of the client that take an image
FacadeCall(op, containerImage, answer) ==
    CASE op = "Vulnerabilities" -> fetchOccurrence(containerImage, "PACKAGE_VULNERABILITY", answer)
      [] op = "Attestations" -> fetchOccurrence(containerImage, "ATTESTATION_AUTHORITY", answer)
      [] op = "Builds" -> fetchOccurrence(containerImage, "BUILD", answer)
      [] op = "OccurencesV1" -> OccurencesV1(containerImage, answer)
      [] op = "CreateAttestationOccurence" -> createOccurrence(containerImage, answer)

ImgFake == Image(<< <<"gcr", "io", "example", "com">>, <<"p1">>, <<"app">> >>, TRUE)

FacadeImages == {ImgApp, ImgTagged, ImgNginx, ImgEu, ImgRoot, ImgDocker, ImgKritis, ImgFake}

FacadeInit ==
    /\ facIn \in [op : FacadeOps, image : FacadeImages, answer : {Nil, "transport"}]
    /\ facOut = Pending
    /\ sevIn = Idle
    /\ sevOut = Idle
    /\ valIn = Idle
    /\ valOut = Idle
    /\ ReviewUnused

FacadeStep ==
    /\ facOut = Pending
    /\ facOut' = FacadeCall(facIn.op, facIn.image, facIn.answer)
    /\ UNCHANGED <<facIn, sevIn, sevOut, valIn, valOut, reviewVars>>

SpecFacade == FacadeInit /\ [][FacadeStep]_vars

\* ------------------------------------------------------------------------
\* Properties of ValidateImageSecurityPolicy and severityWithinThreshold
\* ------------------------------------------------------------------------
ValidateDone == valIn # Idle /\ valOut # Pending /\ valOut # Idle

CountOf(s, P(_)) == Cardinality({i \in 1..Len(s) : P(s[i])})

\* C1: an image listed in the ISP's imageWhitelist gets no violations and no
\* error, and no metadata-fetcher or attestor-fetcher call is made for it,
\* whatever the backend holds and whatever the other policy fields are.
C1_WhitelistedImagePasses ==
    (ValidateDone /\ \E i \in 1..Len(valIn.isp.ImageWhitelist) :
                        valIn.isp.ImageWhitelist[i] = valIn.image)
    => /\ valOut.violations = <<>>
       /\ valOut.err = Nil
       /\ valOut.calls = <<>>

\* a whitelisted, unqualified image whose backend fails and whose policy is
\* otherwise unsatisfiable has been validated
C1_Witness ==
    /\ ValidateDone
    /\ SeqHas(valIn.isp.ImageWhitelist, valIn.image)
    /\ ~valIn.image.digest
    /\ valIn.be.vulnz.err # Nil
    /\ valIn.isp.RequireAttestationsBy # <<>>
    /\ valOut.violations = <<>>

Lattice == {"MINIMAL", "LOW", "MEDIUM", "HIGH", "CRITICAL"}

LatticeRank(s) ==
    CASE s = "MINIMAL" -> 1 [] s = "LOW" -> 2 [] s = "MEDIUM" -> 3
      [] s = "HIGH" -> 4 [] s = "CRITICAL" -> 5

SeverityDone == sevIn # Idle /\ sevOut # Pending /\ sevOut # Idle

\* C6: severityWithinThreshold(max, actual) is false for block-all and true for
\* allow-all, without error; otherwise it is an error when max or actual is not
\* one of MINIMAL, LOW, MEDIUM, HIGH, CRITICAL, and else rank(actual) <= rank(max).
C6_SeverityWithinThreshold ==
    SeverityDone =>
        CASE sevIn.max = BlockAll -> sevOut.err = Nil /\ ~sevOut.ok
          [] sevIn.max = AllowAll -> sevOut.err = Nil /\ sevOut.ok
          [] OTHER ->
                IF sevIn.max \notin Lattice \/ sevIn.actual \notin Lattice
                THEN sevOut.err # Nil
                ELSE /\ sevOut.err = Nil
                     /\ sevOut.ok = (LatticeRank(sevIn.actual) <= LatticeRank(sevIn.max))

\* the vulnerability step of the call in valIn was reached
VulnStepReached ==
    /\ ValidateDone
    /\ ~SeqHas(valIn.isp.ImageWhitelist, valIn.image)
    /\ valIn.image.digest
    /\ valIn.be.vulnz.err = Nil

\* the threshold that applies to a vulnerability, defaults included
ThresholdFor(isp, v) ==
    IF ~v.HasFixAvailable
    THEN IF isp.MaximumFixUnavailableSeverity = "" THEN AllowAll
         ELSE isp.MaximumFixUnavailableSeverity
    ELSE IF isp.MaximumSeverity = "" THEN "CRITICAL" ELSE isp.MaximumSeverity

Within(isp, v) == severityWithinThreshold(ThresholdFor(isp, v), v.Severity)

SeverityErrors == {"invalid max severity level", "invalid severity level"}

IsVulnViolation(x) == x.vType \in {SeverityViolation, FixUnavailableViolation}

\* C7: for each fetched vulnerability v the vulnerability step yields nothing
\* if v.cve is whitelisted; else a Fix-Unavailable violation iff v has no fix
\* and is not within maximumFixUnavailableSeverity (default ALLOW_ALL); else a
\* Severity violation iff v is not within maximumSeverity (default CRITICAL);
\* each carries v, in fetch order, at most one per vulnerability.  The step
\* stops at the first vulnerability whose comparison is an error.
C7_VulnerabilityStep ==
    (VulnStepReached /\ valOut.err \in {Nil} \cup SeverityErrors) =>
        LET isp == valIn.isp
            vs == valIn.be.vulnz.val
            Listed(v) == \E k \in 1..Len(isp.WhitelistCVEs) : isp.WhitelistCVEs[k] = v.CVE
            bad == {i \in 1..Len(vs) : ~Listed(vs[i]) /\ Within(isp, vs[i]).err # Nil}
            n == IF bad = {} THEN Len(vs)
                 ELSE (CHOOSE i \in bad : \A j \in bad : i <= j) - 1
            hit == {i \in 1..n : ~Listed(vs[i]) /\ ~Within(isp, vs[i]).ok}
            nth(k) == CHOOSE i \in hit : Cardinality({j \in hit : j <= i}) = k
            got == SelectSeq(valOut.violations, IsVulnViolation)
        IN  /\ (valOut.err # Nil) = (bad # {})
            /\ Len(got) = Cardinality(hit)
            /\ \A k \in 1..Len(got) :
                    got[k] = [vType |-> IF vs[nth(k)].HasFixAvailable
                                        THEN SeverityViolation
                                        ELSE FixUnavailableViolation,
                              vulnerability |-> vs[nth(k)],
                              detail |-> ""]

\* a whitelisted CVE was skipped and an unfixable vulnerability gave a violation
C7_Witness ==
    /\ VulnStepReached
    /\ valOut.err = Nil
    /\ Len(valIn.be.vulnz.val) = 2
    /\ SeqHas(valIn.isp.WhitelistCVEs, valIn.be.vulnz.val[1].CVE)
    /\ Len(valOut.violations) = 1
    /\ valOut.violations[1].vType = FixUnavailableViolation
    /\ valOut.violations[1].vulnerability = valIn.be.vulnz.val[2]

UnknownSeverity(v) == v.Severity \notin DOMAIN Severity_value

CveListed(isp, v) == \E k \in 1..Len(isp.WhitelistCVEs) : isp.WhitelistCVEs[k] = v.CVE

ArkMatches(env, occ) == occ.NoteName = env.arkNote

JwtVerifies(env, occ) ==
    /\ env.kmsOK
    /\ Len(occ.Jwts) > 0
    /\ occ.Jwts[1].alg = "RS256"
    /\ occ.Jwts[1].sigOK

FetchedOccs == IF valIn.be.occs.err # Nil THEN <<>> ELSE valIn.be.occs.val

NoOptionalChecks ==
    /\ ValidateDone
    /\ valIn.image.digest
    /\ valIn.isp.BuiltProjectIDs = <<>>
    /\ valIn.isp.RequireAttestationsBy = <<>>
    /\ valIn.be.vulnz.err = Nil
    /\ valIn.be.vulnz.val = <<>>

VerifiedOccs ==
    {i \in 1..Len(FetchedOccs) :
        ArkMatches(valIn.env, FetchedOccs[i]) /\ JwtVerifies(valIn.env, FetchedOccs[i])}

LastVerified == CHOOSE i \in VerifiedOccs : \A j \in VerifiedOccs : j <= i

AcceptedBySignature(e) ==
    /\ VerifiedOccs # {}
    /\ FetchedOccs[LastVerified].Jwts[1].project # NoClaim
    /\ FetchedOccs[LastVerified].Jwts[1].project = e

AcceptedByRegistry(e, image) ==
    /\ Len(image.segs) >= 3
    /\ \E zone \in {<<>>, <<"asia">>, <<"eu">>, <<"us">>} :
            image.segs[1] = zone \o <<"gcr", "io">>
    /\ image.segs[2] = <<e>>

IsBuildViolation(x) == x.vType = BuildProjectIDViolation

\* C10: with builtProjectIDs empty there is no Built-Project-ID violation; with
\* it non-empty there is exactly one iff no entry equals the gcp_project claim
\* of the last verified JWT occurrence or names the image's GCR project, and
\* none otherwise; without a verified JWT no entry is accepted by signature.
C10_BuilderCheck ==
    (VulnStepReached /\ valOut.err = Nil) =>
        LET bp == valIn.isp.BuiltProjectIDs
            n == CountOf(valOut.violations, IsBuildViolation)
            accepted == \E i \in 1..Len(bp) :
                            \/ AcceptedBySignature(bp[i])
                            \/ AcceptedByRegistry(bp[i], valIn.image)
        IN  IF bp = <<>> THEN n = 0
            ELSE n = (IF accepted THEN 0 ELSE 1)

\* the required-attestation step of the call in valIn was reached, and every
\* required attestor was resolved
RequiredStepReached ==
    /\ VulnStepReached
    /\ vulnzLoop(valIn.isp, valIn.be.vulnz.val, <<>>).err = Nil
    /\ valIn.isp.RequireAttestationsBy # <<>>
    /\ valIn.be.atts.err = Nil

Resolvable(name) == valIn.be.attestors[name].err = Nil /\ valIn.be.attestors[name].found

\* some (attestation, public key of the attestor) pair has equal key ids and a
\* signature that verifies the atomic payload of the image
SatisfiedBy(name, image, atts) ==
    \E n \in 1..Len(atts) : \E k \in 1..Len(valIn.be.attestors[name].val.PublicKeys) :
        LET pubKey == valIn.be.attestors[name].val.PublicKeys[k]
        IN  /\ atts[n].KeyID = pubKey.ID
            /\ VerifyAttestationSignature(image, pubKey.AsciiArmor, atts[n].Signature)

IsRequiredViolation(x) == x.vType = RequiredAttestationViolation

\* C11: with requireAttestationsBy non-empty and every named attestor
\* resolvable, the call returns no error and, for each required name in order,
\* exactly one Required-Attestation violation iff no (attestation, public key)
\* pair with equal key ids verifies the atomic payload of the image.
C11_RequiredAttestations ==
    (/\ RequiredStepReached
     /\ \A m \in 1..Len(valIn.isp.RequireAttestationsBy) :
            Resolvable(valIn.isp.RequireAttestationsBy[m]))
    => LET ra == valIn.isp.RequireAttestationsBy
           Unsatisfied(name) == ~SatisfiedBy(name, valIn.image, valIn.be.atts.val)
           missing == SelectSeq(ra, Unsatisfied)
           got == SelectSeq(valOut.violations, IsRequiredViolation)
       IN  /\ valOut.err = Nil
           /\ Len(got) = Len(missing)
           /\ \A k \in 1..Len(got) :
                got[k] = Violation(RequiredAttestationViolation, NoVuln, missing[k])

\* two attestors were required; for the first one the first pair tried did
\* not verify and a later pair did, and the second one stayed unsatisfied
C11_Witness ==
    /\ RequiredStepReached
    /\ valIn.isp.RequireAttestationsBy = <<"att1", "att2">>
    /\ valIn.image = ImgApp
    /\ valIn.be.atts.val = <<Att("fpA", Sig("pubA", ImgEu), <<>>),
                             Att("fpA", Sig("pubA", ImgApp), <<>>)>>
    /\ valOut.err = Nil
    /\ Len(valOut.violations) = 1
    /\ valOut.violations[1].detail = "att2"

\* C12: an image that is not in the ISP's imageWhitelist and is not fully
\* qualified gets exactly one violation, of kind Unqualified-Image, and no
\* error, and no fetcher or attestor-fetcher call is made for it.
C12_UnqualifiedImage ==
    (/\ ValidateDone
     /\ \A i \in 1..Len(valIn.isp.ImageWhitelist) : valIn.isp.ImageWhitelist[i] # valIn.image
     /\ ~valIn.image.digest)
    => /\ Len(valOut.violations) = 1
       /\ valOut.violations[1].vType = UnqualifiedImageViolation
       /\ valOut.err = Nil
       /\ valOut.calls = <<>>

\* a tagged image, whitelisted under another reference only, was validated
\* against a failing backend and an unresolvable attestor
C12_Witness ==
    /\ ValidateDone
    /\ ~valIn.image.digest
    /\ valIn.isp.ImageWhitelist # <<>>
    /\ ~SeqHas(valIn.isp.ImageWhitelist, valIn.image)
    /\ valIn.be.vulnz.err # Nil
    /\ valIn.isp.RequireAttestationsBy = <<"down">>
    /\ Len(valOut.violations) = 1
    /\ valOut.err = Nil

IsJwtViolation(x) == x.vType = ArkCISignatureViolation

\* s can be got from t by dropping elements
RECURSIVE IsSubseq(_, _)
IsSubseq(s, t) ==
    IF s = <<>> THEN TRUE
    ELSE IF t = <<>> THEN FALSE
    ELSE IF Head(s) = Head(t) THEN IsSubseq(Tail(s), Tail(t))
    ELSE IsSubseq(s, Tail(t))

\* C14: the returned list is the vulnerability violations in fetch order,
\* then the JWT-Signature violations in occurrence order, then at most one
\* Built-Project-ID violation, then the Required-Attestation violations in the
\* order of requireAttestationsBy.
C14_ViolationOrder ==
    VulnStepReached =>
        LET vs == valOut.violations
            vulnG == SelectSeq(vs, IsVulnViolation)
            jwtG == SelectSeq(vs, IsJwtViolation)
            buildG == SelectSeq(vs, IsBuildViolation)
            reqG == SelectSeq(vs, IsRequiredViolation)
            failing == {i \in 1..Len(FetchedOccs) :
                            /\ ArkMatches(valIn.env, FetchedOccs[i])
                            /\ ~JwtVerifies(valIn.env, FetchedOccs[i])}
            nthFailing(k) == CHOOSE i \in failing : Cardinality({j \in failing : j <= i}) = k
        IN  /\ vs = vulnG \o jwtG \o buildG \o reqG
            /\ Len(buildG) <= 1
            /\ IsSubseq([k \in 1..Len(vulnG) |-> vulnG[k].vulnerability], valIn.be.vulnz.val)
            /\ IsSubseq([k \in 1..Len(reqG) |-> reqG[k].detail],
                        valIn.isp.RequireAttestationsBy)
            /\ (valOut.err = Nil \/ jwtG # <<>>) =>
                /\ Len(jwtG) = Cardinality(failing)
                /\ \A k \in 1..Len(jwtG) :
                    jwtG[k].detail = verifyArkSignature(valIn.env,
                                                        FetchedOccs[nthFailing(k)]).err

\* a call whose list holds violations of all four groups, two of the first
C14_Witness ==
    /\ VulnStepReached
    /\ valOut.err = Nil
    /\ Len(valOut.violations) = 6
    /\ valOut.violations[1].vType = SeverityViolation
    /\ valOut.violations[2].vType = FixUnavailableViolation
    /\ valOut.violations[3].detail = "no jwt found"
    /\ valOut.violations[4].detail = "token is not valid"
    /\ valOut.violations[5].vType = BuildProjectIDViolation
    /\ valOut.violations[6].vType = RequiredAttestationViolation

\* the call in valIn made the fetcher call op
Called(op) == \E k \in 1..Len(valOut.calls) : valOut.calls[k].op = op

\* C15: a fetcher call that fails during ValidateImageSecurityPolicy (the
\* vulnerability fetch, the raw-occurrence fetch or the attestation fetch)
\* makes it return a non-nil error.
C15_TransportErrorsFatal ==
    ValidateDone =>
        ((\/ Called("Vulnerabilities") /\ valIn.be.vulnz.err # Nil
          \/ Called("OccurencesV1") /\ valIn.be.occs.err # Nil
          \/ Called("Attestations") /\ valIn.be.atts.err # Nil)
         => valOut.err # Nil)

FacadeDone == facIn # Idle /\ facOut # Pending /\ facOut # Idle

\* C19: every client operation that takes an image returns an error and sends
\* no request to the backend when the image does not parse or its registry
\* does not end in gcr.io.
C19_FacadeChecksRegistry ==
    (FacadeDone /\ ~isValidImageOnGCR(facIn.image))
    => (facOut.err # Nil /\ facOut.requests = <<>>)

\* ------------------------------------------------------------------------
\* Properties of Review
\* ------------------------------------------------------------------------
At(k, i, j) == log[k].isp = i /\ log[k].img = j

OpAt(op, i, j) == {k \in 1..Len(log) : log[k].op = op /\ At(k, i, j)}

Ops(op) == {k \in 1..Len(log) : log[k].op = op}

\* atts holds an attestation whose key id is the fingerprint of the public
\* key of an authority of the ISP and whose signature, made with that key,
\* is over the atomic payload of the image
ValidAttestationFrom(isp, image, atts) ==
    \E n \in 1..Len(atts) : \E m \in 1..Len(isp.AttestationAuthorityNames) :
        LET name == isp.AttestationAuthorityNames[m]
        IN  /\ name \in DOMAIN AuthorityDB
            /\ AuthorityDB[name].PublicKeyData \in DOMAIN Base64Keys
            /\ LET key == Base64Keys[AuthorityDB[name].PublicKeyData]
               IN  /\ atts[n].KeyID = KeyFingerprint[key]
                   /\ image.digest
                   /\ atts[n].Signature = Sig(key, image)

\* C2: in webhook mode, a pair whose fetched attestations hold a valid one
\* from an authority of the ISP is not validated and Review goes on with the
\* next image; a pair whose attestations hold none is validated.
C2_ShortCircuit ==
    (pc \in {"isp", "image", "done"} /\ rin.isWebhook) =>
        \A k \in Ops("Attestations") :
            log[k].a.err = Nil =>
                LET i == log[k].isp
                    j == log[k].img
                    valid == ValidAttestationFrom(rin.isps[i], log[k].image, log[k].a.val)
                IN  IF valid
                    THEN /\ OpAt("Validate", i, j) = {}
                         /\ ~(pc = "image" /\ loc.ispIdx = i /\ loc.imgIdx = j)
                         /\ (pc = "done" /\ At(Len(log), i, j)) => result.value = "nil"
                    ELSE OpAt("Validate", i, j) # {}

\* the first image was skipped for its valid attestation and the second one,
\* whose attestation names a key of no authority, was validated
C2_Witness ==
    /\ pc = "image"
    /\ rin.isWebhook
    /\ \E k \in OpAt("Attestations", 1, 1) :
            /\ log[k].a.err = Nil
            /\ ValidAttestationFrom(rin.isps[1], log[k].image, log[k].a.val)
    /\ OpAt("Validate", 1, 1) = {}
    /\ OpAt("Validate", 1, 2) # {}
    /\ \E k \in OpAt("Attestations", 1, 2) : Len(log[k].a.val) > 0

\* Review has answered the violations Validate returned in log[k]
ViolationsHandled(k) ==
    /\ Len(log) = k + 1
    /\ log[k + 1].op = "HandleViolation"
    /\ log[k + 1].image = log[k].image
    /\ log[k + 1].a.violations = log[k].a.violations
    /\ Cardinality(Ops("HandleViolation")) = 1
    /\ pc = "done"
    /\ result.value = "err"

\* C3 as stated: whenever Validate returns a non-empty violation list, Review
\* calls HandleViolation exactly once with that image and those violations,
\* returns an error, and calls nothing after it.
C3_ViolationsAlwaysHandled ==
    pc \in {"isp", "image", "done"} =>
        \A k \in Ops("Validate") :
            Len(log[k].a.violations) > 0 => ViolationsHandled(k)

\* C3 amended: whenever Validate returns a non-empty violation list and no
\* error, Review calls HandleViolation exactly once with that image and those
\* violations, returns an error whether or not the strategy fails, and calls
\* nothing after it.
C3_ViolationsHandled ==
    pc \in {"isp", "image", "done"} =>
        \A k \in Ops("Validate") :
            (Len(log[k].a.violations) > 0 /\ log[k].a.err = Nil) => ViolationsHandled(k)

\* violations of the first image were handed to a failing strategy while a
\* second image was still to come
C3_Witness ==
    /\ pc = "done"
    /\ result.value = "err"
    /\ Len(loc.images) = 2
    /\ loc.imgIdx = 1
    /\ Len(log) > 1
    /\ log[Len(log)].op = "HandleViolation"
    /\ log[Len(log)].a.err # Nil
    /\ Len(log[Len(log)].a.violations) = 2

\* the images Review is left with: not globally whitelisted, then not
\* whitelisted by the cluster
AfterGlobalWhitelist ==
    LET Kept(image) == image.segs \notin GlobalImageWhitelist
    IN  SelectSeq(rin.images, Kept)

AfterClusterWhitelist ==
    LET Kept(image) == image \notin rin.remover.remove
    IN  SelectSeq(AfterGlobalWhitelist, Kept)

NothingToReview ==
    \/ Len(rin.isps) = 0
    \/ Len(AfterGlobalWhitelist) = 0
    \/ (rin.remover.err = Nil /\ Len(AfterClusterWhitelist) = 0)

\* C4: a Review call with no ISP, or with no image left after the global
\* whitelist and the cluster whitelist remover, returns nil at once: it
\* resolves no authority, calls no fetcher, Validate or strategy, and creates
\* no note or occurrence.
C4_NothingToReview ==
    [][(pc \in {"idle", "done"} /\ NothingToReview)
        => /\ pc' = "done"
           /\ result'.value = "nil"
           /\ log' = <<>>
           /\ store' = store
           /\ notes' = notes]_vars

\* a call with an ISP and two images, all dropped by the cluster whitelist
\* remover, has returned nil
C4_Witness ==
    /\ pc = "done"
    /\ Len(rin.isps) > 0
    /\ Len(AfterGlobalWhitelist) = 2
    /\ Len(AfterClusterWhitelist) = 0
    /\ rin.remover.err = Nil
    /\ result.value = "nil"
    /\ log = <<>>

\* C5: an error from Validate ends Review with an error, with no
\* HandleViolation call, no attestation created for the pair and nothing after
\* it; and Review returns nil only if every pair it reached was skipped for a
\* valid attestation or validated without error and without violations.
C5_FailClosed ==
    pc \in {"isp", "image", "done"} =>
        /\ \A k \in Ops("Validate") :
                log[k].a.err # Nil =>
                    /\ Len(log) = k
                    /\ pc = "done"
                    /\ result.value = "err"
                    /\ Ops("HandleViolation") = {}
                    /\ OpAt("CreateAttestationOccurence", log[k].isp, log[k].img) = {}
        /\ (pc = "done" /\ result.value = "nil") =>
                \A k \in Ops("Attestations") :
                    LET i == log[k].isp
                        j == log[k].img
                    IN  \/ /\ rin.isWebhook
                           /\ OpAt("Validate", i, j) = {}
                           /\ \E m \in OpAt("HandleAttestation", i, j) : log[m].a
                        \/ \E m \in OpAt("Validate", i, j) :
                                log[m].a.err = Nil /\ log[m].a.violations = <<>>

\* in webhook mode the first image passed and was attested, then Validate
\* failed on the second one with violations in hand
C5_Witness ==
    /\ pc = "done"
    /\ result.value = "err"
    /\ rin.isWebhook
    /\ Ops("CreateAttestationOccurence") # {}
    /\ Len(log) > 0
    /\ log[Len(log)].op = "Validate"
    /\ log[Len(log)].img = 2
    /\ log[Len(log)].a.err # Nil
    /\ Len(log[Len(log)].a.violations) > 0

\* the occurrences this Review has created: the successful create calls
Created ==
    {k \in Ops("CreateAttestationOccurence") : log[k].a.err = Nil /\ ~log[k].a.panic}

\* the (note, image, keyId) an occurrence was created for
CreatedKey(k) ==
    <<log[k].a.note.Name, log[k].image, KeyFingerprint[log[k].a.secret.key]>>

\* C13: issuance is idempotent: however often an image is reached within a
\* Review, at most one occurrence is created for a (note, image, keyId).
C13_IssuanceIdempotent ==
    pc \in {"isp", "image", "done"} =>
        \A k1, k2 \in Created : CreatedKey(k1) = CreatedKey(k2) => k1 = k2

\* the Validate calls of this Review that returned no violations and no error
CleanValidates ==
    {k \in Ops("Validate") : log[k].a.err = Nil /\ log[k].a.violations = <<>>}

\* Review has ended while it was busy with the pair of log[k]
EndedAt(k) ==
    /\ pc = "done"
    /\ result.value # "nil"
    /\ At(Len(log), log[k].isp, log[k].img)

\* C16: in webhook mode Review never ends at an image for which Validate
\* returned no violations and no error, however issuance for it fails: it goes
\* on to the next image, and returns nil when it runs out of images and ISPs.
C16_IssuanceNonFatal ==
    (pc \in {"isp", "image", "done"} /\ rin.isWebhook) =>
        \A k \in CleanValidates : ~EndedAt(k)

IssuanceOps == {"Auths", "GetOrCreateAttestationNote", "Secret", "CreateAttestationOccurence"}

\* the attestations fetched for the pair of log[k]
FetchedFor(k) ==
    LET f == CHOOSE f \in OpAt("Attestations", log[k].isp, log[k].img) : TRUE
    IN  log[f].a.val

\* the authority is one of the ISP and the fingerprint of its public key, if
\* it has one, is the key id of none of the attestations
Unattested(name, isp, atts) ==
    /\ SeqHas(isp.AttestationAuthorityNames, name)
    /\ name \in DOMAIN AuthorityDB
    /\ AuthorityDB[name].PublicKeyData \in DOMAIN Base64Keys =>
            \A n \in 1..Len(atts) :
                atts[n].KeyID # KeyFingerprint[Base64Keys[AuthorityDB[name].PublicKeyData]]

\* every create call of this Review was due
CreatedWhenDue ==
    pc \in {"isp", "image", "done"} =>
        \A k \in Ops("CreateAttestationOccurence") :
            /\ rin.isWebhook
            /\ \E v \in CleanValidates :
                    /\ At(v, log[k].isp, log[k].img)
                    /\ v < k
                    /\ \A m \in (v + 1)..k : log[m].op \in IssuanceOps
            /\ Unattested(log[k].a.authority, rin.isps[log[k].isp], FetchedFor(k))

\* C17: CreateAttestationOccurence is called only in webhook mode, only for an
\* image for which Validate has just returned no violations and no error, and
\* only for an authority of the ISP whose fingerprint is the key id of none of
\* the attestations fetched for the image; without webhook mode no step of
\* Review changes the notes or the occurrences of the backend.
C17_IssuanceOnlyWhenDue ==
    /\ []CreatedWhenDue
    /\ [][(pc \in {"idle", "isp", "image", "done"} /\ ~rin.isWebhook)
            => (store' = store /\ notes' = notes)]_vars

\* authority A was already attested, by a signature that does not verify, and
\* only authority B was signed for
C17_Witness ==
    /\ pc = "done"
    /\ result.value = "nil"
    /\ rin.isWebhook
    /\ Len(rin.isps) = 1
    /\ rin.isps[1].AttestationAuthorityNames = <<"A", "B">>
    /\ Cardinality(Ops("CreateAttestationOccurence")) = 1
    /\ \E k \in Ops("CreateAttestationOccurence") :
            /\ log[k].a.authority = "B"
            /\ log[k].a.err = Nil
            /\ \E n \in 1..Len(FetchedFor(k)) : FetchedFor(k)[n].KeyID = "fpA"

\* the create call log[k] closes the three steps for its authority, in order
StepsInOrder(k) ==
    /\ k >= 3
    /\ log[k - 2].op = "GetOrCreateAttestationNote"
    /\ log[k - 2].a.authority = log[k].a.authority
    /\ log[k - 1].op = "Secret"
    /\ log[k - 1].a.namespace = rin.isps[log[k].isp].Namespace
    /\ log[k - 1].a.name = AuthorityDB[log[k].a.authority].PrivateKeySecretName

\* C18: every create-occurrence call comes after a successful get-or-create of
\* the note and a successful load of the secret of its authority from the
\* ISP's namespace, in this order, and carries that note and that secret: none
\* is made with a missing note or a missing secret.
C18_IssuanceSteps ==
    pc \in {"isp", "image", "done"} =>
        \A k \in Ops("CreateAttestationOccurence") :
            /\ StepsInOrder(k)
            /\ log[k - 2].a.err = Nil
            /\ log[k - 1].a.err = Nil
            /\ ~log[k].a.note.isNil
            /\ ~log[k].a.secret.isNil

\* the authorities of the ISP whose public key parses and whose signing
\* secret holds the key pair of that public key
Signers(isp) ==
    {name \in {isp.AttestationAuthorityNames[m] : m \in 1..Len(isp.AttestationAuthorityNames)} :
        /\ name \in DOMAIN AuthorityDB
        /\ AuthorityDB[name].PublicKeyData \in DOMAIN Base64Keys
        /\ AuthorityDB[name].PrivateKeySecretName \in DOMAIN SecretDB
        /\ SecretDB[AuthorityDB[name].PrivateKeySecretName].key
                = Base64Keys[AuthorityDB[name].PublicKeyData]}

\* every issuance call made for the pair of log[v] succeeded
IssuanceSucceeded(v) ==
    \A k \in 1..Len(log) :
        (/\ At(k, log[v].isp, log[v].img)
         /\ log[k].op \in {"GetOrCreateAttestationNote", "Secret", "CreateAttestationOccurence"})
        => /\ log[k].a.err = Nil
           /\ log[k].op = "CreateAttestationOccurence" => ~log[k].a.panic

\* the backend holds a valid attestation of the image of log[v] from an
\* authority of its ISP
AttestedNow(v) ==
    ValidAttestationFrom(rin.isps[log[v].isp], log[v].image, store[log[v].image])

\* C20 as stated: after a clean validation in webhook mode under an ISP with a
\* signer, all issuance calls having succeeded, the backend holds a valid
\* attestation of the image from an authority of the ISP, whatever
\* attestations the image carried before.
C20_IssuanceAlwaysAttests ==
    (pc \in {"isp", "image", "done"} /\ rin.isWebhook) =>
        \A v \in CleanValidates :
            (Signers(rin.isps[log[v].isp]) # {} /\ IssuanceSucceeded(v)) => AttestedNow(v)

\* the state part of C20 amended: ... provided the fingerprint of some signer
\* of the ISP is the key id of none of the attestations fetched for the image
IssuanceAttests ==
    (pc \in {"isp", "image", "done"} /\ rin.isWebhook) =>
        \A v \in CleanValidates :
            (/\ \E name \in Signers(rin.isps[log[v].isp]) :
                    Unattested(name, rin.isps[log[v].isp], FetchedFor(v))
             /\ IssuanceSucceeded(v))
            => AttestedNow(v)

\* the backend keeps what it holds
StoreGrows ==
    \A image \in DOMAIN store :
        /\ Len(store'[image]) >= Len(store[image])
        /\ SubSeq(store'[image], 1, Len(store[image])) = store[image]

\* a pass over an image that the backend holds a valid attestation for, from
\* an authority of the ISP, does not call Validate
AttestedIsSkipped ==
    (/\ pc = "image"
     /\ loc.imgIdx <= Len(loc.images)
     /\ rin.isWebhook
     /\ loc.images[loc.imgIdx] \in DOMAIN store
     /\ ValidAttestationFrom(rin.isps[loc.ispIdx], loc.images[loc.imgIdx],
                             store[loc.images[loc.imgIdx]]))
    => /\ pc' = "image"
       /\ loc'.imgIdx = loc.imgIdx + 1
       /\ \A k \in (Len(log) + 1)..Len(log') : log'[k].op # "Validate"

\* C20 amended: after a clean validation in webhook mode under an ISP with a
\* signer whose fingerprint none of the fetched attestations carries, all
\* issuance calls having succeeded, the backend holds a valid attestation of
\* the image from an authority of the ISP; the backend keeps it, and every
\* later webhook pass over the image under that ISP skips Validate.
C20_IssuanceEnablesShortCircuit ==
    /\ []IssuanceAttests
    /\ [][(pc \in {"idle", "isp", "image", "done"})
            => (StoreGrows /\ AttestedIsSkipped)]_vars

\* the second Review skipped the image for the attestation the first one
\* issued next to a foreign one
C20_Witness ==
    /\ round = 2
    /\ pc = "done"
    /\ result.value = "nil"
    /\ rin.isWebhook
    /\ rin.isps = <<IspA>>
    /\ rin.images = <<ImgApp>>
    /\ store[ImgApp] = <<Att("fpZ", Sig("pubA", ImgApp), NoteA),
                         Att("fpA", Sig("pubA", ImgApp), NoteA)>>
    /\ Ops("Validate") = {}
    /\ \E k \in Ops("HandleAttestation") : log[k].a

====
